---- MODULE Spec2Model ----
(***************************************************************************)
(* Model of debindex.py: fetch a gzip-compressed Debian Contents index,    *)
(* split every line into (filename, package), count the lines per package  *)
(* value, sort the counts in descending order and save or preview them.    *)
(*                                                                         *)
(* Text is a sequence of one-character strings.  The pandas, gzip and      *)
(* requests calls the program makes are modelled by what they do to the    *)
(* program's data (pandas 1.x, CPython 3.8+).                              *)
(***************************************************************************)
EXTENDS Integers, Sequences, FiniteSets, TLC

VARIABLES
    pc,                  \* position of main
    download,            \* option -d
    output,              \* option -o: None or the destination path
    number_of_elements,  \* option -n
    log_level,           \* option -l
    architecture,        \* positional argument
    download_file_name,  \* local artifact name (None until computed)
    gets,                \* number of HTTP GETs issued so far
    content,             \* r.content / s: the response body held in memory
    disk,                \* the local artifact file: [exists, name, data]
    consumed,            \* what pd.read_csv was handed: [from, bytes]
    df,                  \* dataframe returned by _read_csv (<<>> before)
    df_result,           \* series returned by count_occurrences (<<>> before)
    result_file,         \* the destination file: [exists, lines]
    preview,             \* the table the preview printed: [shown, rows]
    stdout,              \* lines printed with print()
    logged,              \* records passed to _logger, in order
    exc                  \* exception in flight, or the one that ended the run

vars == <<pc, download, output, number_of_elements, log_level, architecture,
          download_file_name, gets, content, disk, consumed, df, df_result,
          result_file, preview, stdout, logged, exc>>

-----------------------------------------------------------------------------
(* Bounds *)

MaxLineLen == 4      \* length of a line in the exhaustive one-line inputs
MaxLines == 3        \* lines of an index in the parse-and-count specification
MaxPipeLines == 2    \* lines of an index in the whole-program specification
MaxN == 2            \* largest value given to -n

-----------------------------------------------------------------------------
(* Values *)

None == <<"None">>        \* Python None: a cell the DataFrame constructor padded
NaN == <<"NaN">>          \* numpy nan: a missing value of read_csv

IsNull(v) == v = None \/ v = NaN

Min(a, b) == IF a <= b THEN a ELSE b
Max(a, b) == IF a >= b THEN a ELSE b

Whitespace == {" "}
Alphabet == {"a", "b", " "}    \* characters of the exhaustive one-line indexes

\* code point order of the characters used, for the lexical order of keys
Ord(c) ==
    CASE c = " " -> 32
      [] c = "," -> 44
      [] c = "-" -> 45
      [] c = "." -> 46
      [] c = "a" -> 97
      [] c = "b" -> 98
      [] OTHER -> 127

\* s < t in Python's string order
StrLess(s, t) ==
    \E k \in 1..(Len(t)) :
        /\ k <= Len(s) + 1
        /\ \A j \in 1..(k - 1) : s[j] = t[j]
        /\ \/ k = Len(s) + 1
           \/ Ord(s[k]) < Ord(t[k])

\* str.split(sep) for a one-character sep; also the fields of an unquoted
\* CSV record
Split(s, sep) ==
    LET RECURSIVE Go(_, _)
        Go(i, cur) ==
            IF i > Len(s) THEN <<cur>>
            ELSE IF s[i] = sep THEN <<cur>> \o Go(i + 1, <<>>)
            ELSE Go(i + 1, Append(cur, s[i]))
    IN Go(1, <<>>)

\* sep.join(parts)
Join(parts, sep) ==
    LET RECURSIVE Go(_)
        Go(i) ==
            IF i > Len(parts) THEN <<>>
            ELSE IF i = Len(parts) THEN parts[i]
            ELSE parts[i] \o <<sep>> \o Go(i + 1)
    IN Go(1)

\* list.insert(index, x) with Python's index normalisation
Insert(list, index, x) ==
    LET n == Len(list)
        at == IF index < 0 THEN Max(n + index, 0) ELSE Min(index, n)
    IN SubSeq(list, 1, at) \o <<x>> \o SubSeq(list, at + 1, n)

-----------------------------------------------------------------------------
(* Compressed bytes.  A byte string is a record: kind says what a gzip     *)
(* reader makes of it, lines is the text it decompresses to.               *)

GzipBytes(lines) == [kind |-> "gzip", lines |-> lines]
NotGzipBytes == [kind |-> "not_gzip", lines |-> <<>>]      \* wrong magic number
TruncatedBytes == [kind |-> "truncated", lines |-> <<>>]   \* ends before the trailer
NoBytes == [kind |-> "none", lines |-> <<>>]               \* nothing received yet

\* gzip.GzipFile as pd.read_csv(compression='gzip') reads it: a wrong magic
\* number raises BadGzipFile, a stream that ends early raises EOFError
Gunzip(bytes) ==
    CASE bytes.kind = "gzip" -> [error |-> "none", lines |-> bytes.lines]
      [] bytes.kind = "not_gzip" -> [error |-> "BadGzipFile", lines |-> <<>>]
      [] OTHER -> [error |-> "EOFError", lines |-> <<>>]

-----------------------------------------------------------------------------
(* pd.read_csv(data, compression='gzip', names=['column']) *)

\* skip_blank_lines: a line of nothing but (non-delimiter) whitespace
IsBlankLine(line) == \A i \in 1..Len(line) : line[i] \in Whitespace

SelectLines(lines) == SelectSeq(lines, LAMBDA l : ~IsBlankLine(l))

\* the tokenizer: the records of the file, each a sequence of fields
Tokenize(lines) ==
    LET kept == SelectLines(lines)
    IN [i \in 1..Len(kept) |-> Split(kept[i], ",")]

\* One name for a file of `width` fields: the leading width - 1 fields become
\* the index and the last one is 'column'.  width is that of the first
\* record; a later record with more fields is a ParserError, one with fewer
\* is padded with NaN, and an empty field is NaN.
ColumnOf(rows) ==
    LET width == Len(rows[1])
    IN [i \in 1..Len(rows) |->
            IF Len(rows[i]) < width \/ rows[i][width] = <<>>
            THEN NaN
            ELSE rows[i][width]]

ReadCsvColumn(bytes) ==
    LET z == Gunzip(bytes)
        rows == Tokenize(z.lines)
    IN IF z.error # "none" THEN [error |-> z.error, column |-> <<>>]
       ELSE IF rows = <<>> THEN [error |-> "none", column |-> <<>>]
       ELSE IF \E i \in 1..Len(rows) : Len(rows[i]) > Len(rows[1])
       THEN [error |-> "ParserError", column |-> <<>>]
       ELSE [error |-> "none", column |-> ColumnOf(rows)]

-----------------------------------------------------------------------------
(* df.iloc[:, 0].str.split('\\s+', 1, expand=True) *)

\* index of the first whitespace character of s, or 0
FirstWs(s) ==
    LET ws == {i \in 1..Len(s) : s[i] \in Whitespace}
    IN IF ws = {} THEN 0 ELSE CHOOSE i \in ws : \A j \in ws : i <= j

\* index of the last character of the whitespace run that starts at i
RunEnd(s, i) ==
    CHOOSE e \in i..Len(s) :
        /\ \A j \in i..e : s[j] \in Whitespace
        /\ e = Len(s) \/ s[e + 1] \notin Whitespace

\* re.split('\s+', s, maxsplit=1)
RegexSplit(s) ==
    LET i == FirstWs(s)
    IN IF i = 0 THEN <<s>>
       ELSE <<SubSeq(s, 1, i - 1), SubSeq(s, RunEnd(s, i) + 1, Len(s))>>

\* the rows of the expanded frame: NaN stays NaN in every column, a shorter
\* list is padded with None
StrSplitExpand(column) ==
    LET parts == [i \in 1..Len(column) |->
                    IF column[i] = NaN THEN <<NaN>> ELSE RegexSplit(column[i])]
        lens == {Len(parts[i]) : i \in 1..Len(column)}
        ncols == IF lens = {} THEN 0 ELSE CHOOSE n \in lens : \A m \in lens : m <= n
        cell(i, c) ==
            IF column[i] = NaN THEN NaN
            ELSE IF c <= Len(parts[i]) THEN parts[i][c]
            ELSE None
    IN [ncols |-> ncols,
        rows |-> [i \in 1..Len(column) |-> [c \in 1..ncols |-> cell(i, c)]]]

\* .str needs an object column: a non-empty column of nothing but NaN is
\* float64 and has no .str accessor
HasStrAccessor(column) ==
    column = <<>> \/ \E i \in 1..Len(column) : column[i] # NaN

\* _read_csv: [error, df]; df is a sequence of [filename, package] rows.
\* df.columns = column_names raises ValueError unless the split gave exactly
\* len(column_names) = 2 columns.
ReadCsv(bytes) ==
    LET r == ReadCsvColumn(bytes)
        x == StrSplitExpand(r.column)
    IN IF r.error # "none" THEN [error |-> r.error, df |-> <<>>]
       ELSE IF ~HasStrAccessor(r.column) THEN [error |-> "AttributeError", df |-> <<>>]
       ELSE IF x.ncols # 2 THEN [error |-> "ValueError", df |-> <<>>]
       ELSE [error |-> "none",
             df |-> [i \in 1..Len(r.column) |->
                        [filename |-> x.rows[i][1], package |-> x.rows[i][2]]]]

-----------------------------------------------------------------------------
(* count_occurrences *)

\* the elements of a finite set of strings in ascending order
SortedStrings(S) ==
    LET RECURSIVE Go(_)
        Go(T) ==
            IF T = {} THEN <<>>
            ELSE LET m == CHOOSE x \in T : \A y \in T : y = x \/ StrLess(x, y)
                 IN <<m>> \o Go(T \ {m})
    IN Go(S)

\* df.pivot_table(index=['package'], aggfunc='size'): groupby drops the null
\* keys, sorts the groups by key and counts the rows of each
PivotSize(d) ==
    LET keys == {d[i].package : i \in 1..Len(d)} \ {None, NaN}
        order == SortedStrings(keys)
    IN [k \in 1..Len(order) |->
            [package |-> order[k],
             size |-> Cardinality({i \in 1..Len(d) : d[i].package = order[k]})]]

Reverse(s) == [i \in 1..Len(s) |-> s[Len(s) + 1 - i]]

\* a stable ascending argsort by size (numpy sorts short arrays by insertion)
ArgSort(s) ==
    LET RECURSIVE Ins(_, _)
        Ins(sorted, i) ==
            IF i > Len(s) THEN sorted
            ELSE LET pos == Cardinality({j \in 1..Len(sorted) :
                                            s[sorted[j]].size <= s[i].size})
                 IN Ins(SubSeq(sorted, 1, pos) \o <<i>>
                            \o SubSeq(sorted, pos + 1, Len(sorted)), i + 1)
    IN Ins(<<>>, 1)

\* mutant of SortValuesIndex: ascending=False is dropped
SortValuesIndexAscending(s, legacy) ==
    LET asc == ArgSort(s)
    IN [i \in 1..Len(s) |-> s[asc[i]].package]

\* Series.sort_values(ascending=False).index.  nargsort reverses the values,
\* sorts them ascending and reverses the result (equal sizes keep their
\* order); before pandas 1.2 the ascending argsort alone was reversed (equal
\* sizes come out in reverse order).
SortValuesIndex(s, legacy) ==
    LET n == Len(s)
        asc == ArgSort(s)
        rev == ArgSort(Reverse(s))
        positions == IF legacy THEN Reverse(asc)
                     ELSE Reverse([i \in 1..n |-> n + 1 - rev[i]])
    IN [i \in 1..n |-> s[positions[i]].package]

\* Series.reindex(labels): the row of each label, in the labels' order
Reindex(s, labels) ==
    [i \in 1..Len(labels) |->
        s[CHOOSE k \in 1..Len(s) : s[k].package = labels[i]]]

CountOccurrencesOf(d, legacy) ==
    LET df_pivoted == PivotSize(d)
    IN Reindex(df_pivoted, SortValuesIndex(df_pivoted, legacy))

-----------------------------------------------------------------------------
(* output_result *)

\* Python's seq[:n]
SliceTo(s, n) ==
    LET stop == IF n < 0 THEN Max(Len(s) + n, 0) ELSE Min(n, Len(s))
    IN SubSeq(s, 1, stop)

\* mutant of DfHead: the limit is ignored
DfHeadWhole(s, n) == s

\* df.head(n)
DfHead(s, n) == SliceTo(s, n)

\* DataFrame.to_csv(index=True, header=False): one 'key,count' line per row
Digit(n) == <<"0", "1", "2", "3", "4", "5", "6", "7", "8", "9">>[n + 1]

Decimal(n) ==
    LET RECURSIVE Go(_)
        Go(m) == IF m < 10 THEN <<Digit(m)>> ELSE Go(m \div 10) \o <<Digit(m % 10)>>
    IN Go(n)

CsvLine(row) == row.package \o <<",">> \o Decimal(row.size)

CsvLines(s) == [i \in 1..Len(s) |-> CsvLine(s[i])]

-----------------------------------------------------------------------------
(* main: names *)

\* datetime.now().strftime("%Y%m%d-%H%M%S")
ZeroPad(n, width) ==
    LET RECURSIVE Go(_, _)
        Go(m, w) == IF w = 0 THEN <<>> ELSE Go(m \div 10, w - 1) \o <<Digit(m % 10)>>
    IN Go(n, width)

Strftime(now) ==
    ZeroPad(now.year, 4) \o ZeroPad(now.month, 2) \o ZeroPad(now.day, 2) \o <<"-">>
        \o ZeroPad(now.hour, 2) \o ZeroPad(now.minute, 2) \o ZeroPad(now.second, 2)

ContentsPrefix == <<"C", "o", "n", "t", "e", "n", "t", "s", "-">>
GzSuffix == <<".", "g", "z">>

\* f'Contents-{architecture}.gz'
IndexFileName(arch) == ContentsPrefix \o arch \o GzSuffix

\* mutant of DownloadFileName: the timestamp is appended, not inserted
\* before the last component
DownloadFileNameAppended(index_file_name, timestamp) ==
    LET parts == Split(index_file_name, ".")
    IN Join(Insert(parts, Len(parts), timestamp), ".")

\* split('.'), insert(-1, timestamp), '.'.join
DownloadFileName(index_file_name, timestamp) ==
    Join(Insert(Split(index_file_name, "."), -1, timestamp), ".")

-----------------------------------------------------------------------------
(* Inputs *)

DefaultNumber == 10
LogLevels == {"info", "warning", "error", "critical"}
OutPath == <<"o", "u", "t">>

DefaultArch == <<"a", "m", "d">>
Architectures == {DefaultArch, <<"a", ".", "b">>}

Clock ==
    {[year |-> 2026, month |-> 11, day |-> 5, hour |-> 6, minute |-> 46, second |-> 9],
     [year |-> 2021, month |-> 1, day |-> 31, hour |-> 23, minute |-> 0, second |-> 59]}

Numbers == (-2..MaxN) \cup {DefaultNumber}

\* every sequence over S of length at most n
SeqsUpTo(S, n) == UNION {[1..k -> S] : k \in 0..n}

\* lines of an index: path, whitespace, package; a line with no whitespace,
\* one with a comma, a blank one
PipeLines ==
    {<<"a", " ", "b">>, <<"a", " ", "a">>, <<"a">>, <<"a", ",", "a", " ", "b">>, <<>>}

\* and the lines that stress the split: trailing or leading whitespace, a
\* longer run, a remainder with whitespace in it, an empty last field
SampleLines ==
    PipeLines \cup
    {<<"a", " ">>, <<"b", " ", " ", "b">>, <<"a", " ", "b", " ", "a">>,
     <<" ", "a", " ", "b">>, <<"a", ",">>}

\* the command lines: -n is varied where the preview reads it, the
\* architecture where it names the artifact
Options ==
    {o \in [download : BOOLEAN, output : {None, OutPath}, number_of_elements : Numbers,
            log_level : LogLevels, architecture : Architectures] :
        /\ o.output # None => o.number_of_elements = DefaultNumber
        /\ ~o.download => o.architecture = DefaultArch}

\* what an HTTP GET can return as the body
PipeBodies ==
    {GzipBytes(ls) : ls \in SeqsUpTo(PipeLines, MaxPipeLines)}
        \cup {NotGzipBytes, TruncatedBytes}

ParseBodies ==
    {GzipBytes(ls) : ls \in SeqsUpTo(SampleLines, MaxLines)}
        \cup {GzipBytes(<<l>>) : l \in SeqsUpTo(Alphabet, MaxLineLen)}

-----------------------------------------------------------------------------
(* Logging and printing *)

LevelNo(level) ==
    CASE level = "info" -> 20
      [] level = "warning" -> 30
      [] level = "error" -> 40
      [] OTHER -> 50

Record(level, msg) == [level |-> level, msg |-> msg]

\* the records the handler writes: _logger.setLevel(log_level.upper())
\* drops those below the level
Emitted == SelectSeq(logged, LAMBDA r : LevelNo(r.level) >= LevelNo(log_level))

Banner == "Debian Index Statistics Tool"
Rule == "----"
TopHeader == "Top packages with more files associated:"
Table == "df.head(number_of_elements).to_string(header=False)"
Finished == "Finished."

MsgDownloading == "Downloading index file from ..."
MsgDownloaded == "Downloading finished."
MsgReadingRemote == "Reading index file from ..."
MsgReadingLocal == "Reading index file from local file ..."
MsgRead == "Reading finished."
MsgCounting == "Counting index entries occurrences ..."
MsgCounted == "Counting finished."
MsgSaving == "Saving result to ..."
MsgSaved == "Saving finished."
MsgInvalidURL == "Invalid URL"
MsgBadGzip == "Could not read index file"
MsgCanceled == "Canceled by user."

-----------------------------------------------------------------------------
(* main *)

NoFile == [exists |-> FALSE, name |-> None, data |-> NoBytes]
NotRead == [from |-> None, bytes |-> NoBytes]
NoResultFile == [exists |-> FALSE, lines |-> <<>>]
NoPreview == [shown |-> FALSE, rows |-> <<>>]

\* positions inside the try block of main
TryBlock ==
    {"try", "download_index", "download_write", "read_index_local",
     "read_index_remote", "remote_parse", "count_occurrences", "output_result",
     "to_csv"}

\* the state at the try statement: options parsed, banner printed
Init ==
    /\ pc = "try"
    /\ \E o \in Options :
        /\ download = o.download
        /\ output = o.output
        /\ number_of_elements = o.number_of_elements
        /\ log_level = o.log_level
        /\ architecture = o.architecture
    /\ download_file_name = None
    /\ gets = 0
    /\ content = NoBytes
    /\ disk = NoFile
    /\ consumed = NotRead
    /\ df = <<>>
    /\ df_result = <<>>
    /\ result_file = NoResultFile
    /\ preview = NoPreview
    /\ stdout = <<Banner>>
    /\ logged = <<>>
    /\ exc = "none"

\* raise e inside the try block
Raise(e) == /\ exc' = e
            /\ pc' = "except"

\* lines 60-64: the name of the local artifact
NameDownload ==
    /\ pc = "try"
    /\ download
    /\ \E now \in Clock :
        download_file_name' = DownloadFileName(IndexFileName(architecture), Strftime(now))
    /\ pc' = "download_index"
    /\ UNCHANGED <<download, output, number_of_elements, log_level, architecture, gets,
                   content, disk, consumed, df, df_result, result_file, preview,
                   stdout, logged, exc>>

\* line 60, else branch
EnterRemote ==
    /\ pc = "try"
    /\ ~download
    /\ pc' = "read_index_remote"
    /\ UNCHANGED <<download, output, number_of_elements, log_level, architecture,
                   download_file_name, gets, content, disk, consumed, df, df_result,
                   result_file, preview, stdout, logged, exc>>

\* requests.get(url).content: the body, or InvalidURL
HttpGet(next_pc) ==
    /\ gets' = gets + 1
    /\ \/ /\ \E body \in PipeBodies : content' = body
          /\ pc' = next_pc
          /\ exc' = exc
       \/ /\ Raise("InvalidURL")
          /\ content' = content

\* download_index, lines 88-89
DownloadGet ==
    /\ pc = "download_index"
    /\ logged' = Append(logged, Record("info", MsgDownloading))
    /\ HttpGet("download_write")
    /\ UNCHANGED <<download, output, number_of_elements, log_level, architecture,
                   download_file_name, disk, consumed, df, df_result, result_file,
                   preview, stdout>>

\* mutant of FileWrite: the file is cut short
FileWriteCut(data) == TruncatedBytes

\* open(name, 'wb').write(data): the bytes on disk once the file object is
\* released (CPython closes it at the end of the statement)
FileWrite(data) == data

\* download_index, lines 90-91
DownloadWrite ==
    /\ pc = "download_write"
    /\ disk' = [exists |-> TRUE, name |-> download_file_name,
                data |-> FileWrite(content)]
    /\ logged' = Append(logged, Record("info", MsgDownloaded))
    /\ pc' = "read_index_local"
    /\ UNCHANGED <<download, output, number_of_elements, log_level, architecture,
                   download_file_name, gets, content, consumed, df, df_result,
                   result_file, preview, stdout, exc>>

\* _read_csv(data, column_names) called by a reader that logged `announce`
\* first and logs 'Reading finished.' when it returns
Parse(source, bytes, announce) ==
    LET r == ReadCsv(bytes)
    IN /\ consumed' = [from |-> source, bytes |-> bytes]
       /\ IF r.error = "none"
          THEN /\ df' = r.df
               /\ logged' = logged \o announce \o <<Record("info", MsgRead)>>
               /\ pc' = "count_occurrences"
               /\ exc' = exc
          ELSE /\ df' = df
               /\ logged' = logged \o announce
               /\ Raise(r.error)

\* read_index_local, lines 115-118: pandas opens the file by its name
ReadIndexLocal ==
    /\ pc = "read_index_local"
    /\ disk.exists
    /\ disk.name = download_file_name
    /\ Parse(download_file_name, disk.data, <<Record("info", MsgReadingLocal)>>)
    /\ UNCHANGED <<download, output, number_of_elements, log_level, architecture,
                   download_file_name, gets, content, disk, df_result, result_file,
                   preview, stdout>>

\* read_index_remote, lines 101-102
RemoteGet ==
    /\ pc = "read_index_remote"
    /\ logged' = Append(logged, Record("info", MsgReadingRemote))
    /\ HttpGet("remote_parse")
    /\ UNCHANGED <<download, output, number_of_elements, log_level, architecture,
                   download_file_name, disk, consumed, df, df_result, result_file,
                   preview, stdout>>

\* read_index_remote, lines 103-105: _read_csv(BytesIO(s))
RemoteParse ==
    /\ pc = "remote_parse"
    /\ Parse(<<"BytesIO">>, content, <<>>)
    /\ UNCHANGED <<download, output, number_of_elements, log_level, architecture,
                   download_file_name, gets, content, disk, df_result, result_file,
                   preview, stdout>>

\* count_occurrences, lines 138-142
CountOccurrences ==
    /\ pc = "count_occurrences"
    /\ \E legacy \in BOOLEAN : df_result' = CountOccurrencesOf(df, legacy)
    /\ logged' = logged \o <<Record("info", MsgCounting), Record("info", MsgCounted)>>
    /\ pc' = "output_result"
    /\ UNCHANGED <<download, output, number_of_elements, log_level, architecture,
                   download_file_name, gets, content, disk, consumed, df, result_file,
                   preview, stdout, exc>>

\* output_result, lines 154-156: to_csv opens the destination for writing
SaveOpen ==
    /\ pc = "output_result"
    /\ output # None
    /\ logged' = Append(logged, Record("info", MsgSaving))
    /\ result_file' = [exists |-> TRUE, lines |-> <<>>]
    /\ pc' = "to_csv"
    /\ UNCHANGED <<download, output, number_of_elements, log_level, architecture,
                   download_file_name, gets, content, disk, consumed, df, df_result,
                   preview, stdout, exc>>

\* to_csv writes the next row
SaveRow ==
    /\ pc = "to_csv"
    /\ Len(result_file.lines) < Len(df_result)
    /\ result_file' = [result_file EXCEPT
            !.lines = Append(@, CsvLine(df_result[Len(@) + 1]))]
    /\ UNCHANGED <<pc, download, output, number_of_elements, log_level, architecture,
                   download_file_name, gets, content, disk, consumed, df, df_result,
                   preview, stdout, logged, exc>>

\* to_csv returns, line 157
SaveClose ==
    /\ pc = "to_csv"
    /\ Len(result_file.lines) = Len(df_result)
    /\ logged' = Append(logged, Record("info", MsgSaved))
    /\ pc' = "finished"
    /\ UNCHANGED <<download, output, number_of_elements, log_level, architecture,
                   download_file_name, gets, content, disk, consumed, df, df_result,
                   result_file, preview, stdout, exc>>

\* output_result, lines 158-163
ShowPreview ==
    /\ pc = "output_result"
    /\ output = None
    /\ preview' = [shown |-> TRUE, rows |-> DfHead(df_result, number_of_elements)]
    /\ stdout' = stdout \o <<Rule, TopHeader, Rule, Table, Rule>>
    /\ pc' = "finished"
    /\ UNCHANGED <<download, output, number_of_elements, log_level, architecture,
                   download_file_name, gets, content, disk, consumed, df, df_result,
                   result_file, logged, exc>>

\* SIGINT while main is inside the try block
Interrupt ==
    /\ pc \in TryBlock
    /\ Raise("KeyboardInterrupt")
    /\ UNCHANGED <<download, output, number_of_elements, log_level, architecture,
                   download_file_name, gets, content, disk, consumed, df, df_result,
                   result_file, preview, stdout, logged>>

Handle(e, level, msg) ==
    /\ pc = "except"
    /\ exc = e
    /\ logged' = Append(logged, Record(level, msg))
    /\ pc' = "finished"
    /\ UNCHANGED <<download, output, number_of_elements, log_level, architecture,
                   download_file_name, gets, content, disk, consumed, df, df_result,
                   result_file, preview, stdout, exc>>

\* lines 73-74
ExceptInvalidURL == Handle("InvalidURL", "error", MsgInvalidURL)

\* mutant of ExceptBadGzipFile: no except clause for BadGzipFile
ExceptBadGzipFileMissing ==
    /\ pc = "except"
    /\ exc = "BadGzipFile"
    /\ pc' = "crashed"
    /\ UNCHANGED <<download, output, number_of_elements, log_level, architecture,
                   download_file_name, gets, content, disk, consumed, df, df_result,
                   result_file, preview, stdout, logged, exc>>

\* lines 75-76
ExceptBadGzipFile == Handle("BadGzipFile", "error", MsgBadGzip)

\* lines 77-78
ExceptKeyboardInterrupt == Handle("KeyboardInterrupt", "info", MsgCanceled)

Caught == {"InvalidURL", "BadGzipFile", "KeyboardInterrupt"}

\* no except clause matches: the exception leaves main
Propagate ==
    /\ pc = "except"
    /\ exc \notin Caught
    /\ pc' = "crashed"
    /\ UNCHANGED <<download, output, number_of_elements, log_level, architecture,
                   download_file_name, gets, content, disk, consumed, df, df_result,
                   result_file, preview, stdout, logged, exc>>

\* line 79
PrintFinished ==
    /\ pc = "finished"
    /\ stdout' = Append(stdout, Finished)
    /\ pc' = "done"
    /\ UNCHANGED <<download, output, number_of_elements, log_level, architecture,
                   download_file_name, gets, content, disk, consumed, df, df_result,
                   result_file, preview, logged, exc>>

Next ==
    \/ NameDownload
    \/ EnterRemote
    \/ DownloadGet
    \/ DownloadWrite
    \/ ReadIndexLocal
    \/ RemoteGet
    \/ RemoteParse
    \/ CountOccurrences
    \/ SaveOpen
    \/ SaveRow
    \/ SaveClose
    \/ ShowPreview
    \/ Interrupt
    \/ ExceptInvalidURL
    \/ ExceptBadGzipFile
    \/ ExceptKeyboardInterrupt
    \/ Propagate
    \/ PrintFinished

Spec == Init /\ [][Next]_vars

-----------------------------------------------------------------------------
(* The parse-and-count stages alone, on a wider set of index files: the    *)
(* state read_index_remote is in once the body has arrived.                *)

InitParse ==
    /\ pc = "remote_parse"
    /\ download = FALSE
    /\ output = None
    /\ number_of_elements = DefaultNumber
    /\ log_level = "info"
    /\ architecture = DefaultArch
    /\ download_file_name = None
    /\ gets = 1
    /\ content \in ParseBodies
    /\ disk = NoFile
    /\ consumed = NotRead
    /\ df = <<>>
    /\ df_result = <<>>
    /\ result_file = NoResultFile
    /\ preview = NoPreview
    /\ stdout = <<Banner>>
    /\ logged = <<Record("info", MsgReadingRemote)>>
    /\ exc = "none"

NextParse ==
    \/ RemoteParse
    \/ CountOccurrences

SpecParse == InitParse /\ [][NextParse]_vars

-----------------------------------------------------------------------------
(* Properties *)

Messages == {logged[i].msg : i \in 1..Len(logged)}

\* _read_csv has returned a dataframe / count_occurrences has returned
ReadReturned == MsgRead \in Messages
Counted == MsgCounted \in Messages

Sizes(s) == [i \in 1..Len(s) |-> s[i].size]

SumSeq(xs) ==
    LET RECURSIVE Go(_)
        Go(i) == IF i > Len(xs) THEN 0 ELSE xs[i] + Go(i + 1)
    IN Go(1)

HasWhitespace(line) == \E i \in 1..Len(line) : line[i] \in Whitespace

\* [i, j] is the first run of whitespace of line
IsFirstRun(line, i, j) ==
    /\ 1 <= i /\ i <= j /\ j <= Len(line)
    /\ \A k \in 1..(i - 1) : line[k] \notin Whitespace
    /\ \A k \in i..j : line[k] \in Whitespace
    /\ j = Len(line) \/ line[j + 1] \notin Whitespace

\* the whole remainder of line after its first run of whitespace
Remainder(line) ==
    LET j == CHOOSE j \in 1..Len(line) : \E i \in 1..j : IsFirstRun(line, i, j)
    IN SubSeq(line, j + 1, Len(line))

\* rec is the record the split at the first run of whitespace gives for line
IsRecordOf(rec, line) ==
    IF HasWhitespace(line)
    THEN \E j \in 1..Len(line) : \E i \in 1..j :
            /\ IsFirstRun(line, i, j)
            /\ rec.filename = SubSeq(line, 1, i - 1)
            /\ rec.package = SubSeq(line, j + 1, Len(line))
    ELSE rec.filename = line /\ IsNull(rec.package)

\* C1: every decompressed line gives exactly one record, whose path is the
\* text before the line's first run of whitespace and whose packages key is
\* the whole remainder after that run, and count_occurrences groups by
\* exactly those remainders.
C1_RecordPerLine ==
    LET lines == consumed.bytes.lines
    IN /\ ReadReturned =>
            /\ Len(df) = Len(lines)
            /\ \A i \in 1..Len(lines) : IsRecordOf(df[i], lines[i])
       /\ Counted =>
            {df_result[k].package : k \in 1..Len(df_result)}
                = {Remainder(lines[i]) : i \in {n \in 1..Len(lines) : HasWhitespace(lines[n])}}

NonEmptyKey(k) == ~IsNull(k) /\ k # <<>>

\* C2: the counts of the result add up to the number of records whose
\* packages key is non-empty, and the result has one row per distinct
\* non-empty key.
C2_CountConservation ==
    Counted =>
        /\ SumSeq(Sizes(df_result))
            = Cardinality({i \in 1..Len(df) : NonEmptyKey(df[i].package)})
        /\ Len(df_result)
            = Cardinality({df[i].package : i \in 1..Len(df)} \ {None, NaN, <<>>})

\* C3: the result of count_occurrences is in non-increasing count order and
\* holds each key of the dataframe exactly once, with the number of records
\* that carry it.
C3_SortedPermutation ==
    Counted =>
        LET keys == {df[i].package : i \in 1..Len(df)} \ {None, NaN}
        IN /\ \A k \in 1..(Len(df_result) - 1) : df_result[k].size >= df_result[k + 1].size
           /\ Len(df_result) = Cardinality(keys)
           /\ \A key \in keys :
                \E k \in 1..Len(df_result) :
                    /\ df_result[k].package = key
                    /\ df_result[k].size
                        = Cardinality({i \in 1..Len(df) : df[i].package = key})

\* C3 witness: the sort moved a key with more records ahead of one that
\* precedes it in key order
C3_Witness ==
    /\ Counted
    /\ Len(df_result) >= 2
    /\ df_result # PivotSize(df)
    /\ df_result[1].size > df_result[Len(df_result)].size

\* C4 as claimed: the preview shows exactly min(N, |R|) entries, the first
\* ones of R, for every integer N.
C4_PreviewMin ==
    preview.shown =>
        /\ Len(preview.rows) = Min(number_of_elements, Len(df_result))
        /\ \A i \in 1..Len(preview.rows) : preview.rows[i] = df_result[i]

\* C4 amended: for N >= 0 the preview shows exactly min(N, |R|) entries; for
\* N < 0 it shows max(|R| + N, 0) entries (all but the last |N|).  In both
\* cases they are the first entries of R in rank order, and none of them has
\* a lower count than an entry left out.
C4_PreviewBound ==
    preview.shown =>
        LET n == number_of_elements
            k == IF n >= 0 THEN Min(n, Len(df_result)) ELSE Max(Len(df_result) + n, 0)
        IN /\ Len(preview.rows) = k
           /\ \A i \in 1..k : preview.rows[i] = df_result[i]
           /\ \A i \in 1..k : \A j \in (k + 1)..Len(df_result) :
                df_result[i].size >= df_result[j].size

\* C4 witness: a preview cut short by a positive N
C4_Witness ==
    /\ preview.shown
    /\ number_of_elements > 0
    /\ number_of_elements < Len(df_result)
    /\ Len(preview.rows) = number_of_elements

\* C5: when the bytes handed to the parser are not valid gzip, the run ends
\* with 'Could not read index file' logged, nothing is counted, and neither
\* a result file nor a preview is produced.
C5_CorruptInputHandled ==
    (consumed.bytes.kind \in {"not_gzip", "truncated"}) =>
        /\ ~Counted
        /\ ~result_file.exists
        /\ ~preview.shown
        /\ pc \in {"except", "finished", "done"}
        /\ pc \in {"finished", "done"} =>
            /\ exc = "BadGzipFile"
            /\ Record("error", MsgBadGzip) = logged[Len(logged)]

\* C6: when the decompressed stream has zero lines, no error is raised, the
\* result is empty, and a run that completes has produced an empty preview
\* or an empty output file.
C6_EmptyInputClean ==
    (consumed.bytes = GzipBytes(<<>>)) =>
        /\ exc \in {"none", "KeyboardInterrupt"}
        /\ pc # "crashed"
        /\ Counted => df_result = <<>>
        /\ (pc = "done" /\ exc = "none") =>
            IF output = None
            THEN preview.shown /\ preview.rows = <<>>
            ELSE result_file.exists /\ result_file.lines = <<>>

IsDigit(c) == c \in {"0", "1", "2", "3", "4", "5", "6", "7", "8", "9"}

\* YYYYMMDD-HHMMSS
IsTimestamp(ts) ==
    /\ Len(ts) = 15
    /\ ts[9] = "-"
    /\ \A i \in (1..15) \ {9} : IsDigit(ts[i])

\* C7 as claimed: the artifact is named Contents-<timestamp>-<architecture>.gz
C7_TimestampThenArchitecture ==
    download_file_name # None =>
        LET ts == SubSeq(download_file_name, Len(ContentsPrefix) + 1,
                         Len(ContentsPrefix) + 15)
        IN /\ IsTimestamp(ts)
           /\ download_file_name
                = ContentsPrefix \o ts \o <<"-">> \o architecture \o GzSuffix

\* C7 amended: the artifact written and read back is named
\* Contents-<architecture>.<timestamp>.gz, timestamp YYYYMMDD-HHMMSS.
C7_ArtifactName ==
    download_file_name # None =>
        LET at == Len(ContentsPrefix) + Len(architecture) + 1
            ts == SubSeq(download_file_name, at + 1, at + 15)
        IN /\ IsTimestamp(ts)
           /\ download_file_name
                = ContentsPrefix \o architecture \o <<".">> \o ts \o GzSuffix
           /\ disk.exists => disk.name = download_file_name
           /\ consumed # NotRead => consumed.from = download_file_name

\* C7 witness: the artifact was written and read back
C7_Witness ==
    /\ download
    /\ disk.exists
    /\ consumed.from = disk.name
    /\ architecture # DefaultArch

Count(xs, x) == Cardinality({i \in 1..Len(xs) : xs[i] = x})

C9_NoPartialResultFile ==
    exc = "KeyboardInterrupt" =>
        \/ ~result_file.exists
        \/ result_file.lines = CsvLines(df_result)

\* C10: with the download flag set there is one HTTP GET and no more; the
\* artifact holds the response body verbatim; the parser reads the artifact,
\* by its name, only once it is written, and what it reads is the response
\* body.
C10_DiskRoundTrip ==
    download =>
        /\ gets <= 1
        /\ disk.exists =>
            /\ gets = 1
            /\ disk.name = download_file_name
            /\ disk.data = content
        /\ consumed # NotRead =>
            /\ disk.exists
            /\ consumed.from = disk.name
            /\ consumed.bytes = content
        /\ (pc = "done" /\ exc = "none") => consumed # NotRead

\* C10 witness: a completed download run
C10_Witness ==
    /\ download
    /\ pc = "done"
    /\ exc = "none"
    /\ gets = 1
    /\ consumed.bytes = content
    /\ content.kind = "gzip"

====
